---- MODULE Spec2Model ----
(***************************************************************************)
(* Maze generation (recursive backtracker, frontier growth, braid pass)    *)
(* and breadth-first solving, as implemented by MazeGenerator              *)
(* (src/mazegen/mazegen.py) and by Maze (src/a_maze_ing.py).               *)
(*                                                                         *)
(* Positions are <<row, col>> pairs, as the (y, x) tuples of the source.   *)
(* The Python random module is modelled as a seeded generator `rng`:       *)
(* every draw advances it, so a run is a function of the seed.             *)
(***************************************************************************)
EXTENDS Integers, Sequences, FiniteSets, TLC

VARIABLES cls, height, width, entry, exit, perfect, algo, seed, rng,
          cells, visited_count, cells_count,
          pc, stack, choices, cur, bpos, ret, args, solves, first, file,
          show_solution, maze_color, loop, keys, calls

vars == <<cls, height, width, entry, exit, perfect, algo, seed, rng,
          cells, visited_count, cells_count,
          pc, stack, choices, cur, bpos, ret, args, solves, first, file,
          show_solution, maze_color, loop, keys, calls>>

\* The locals of main's menu loop: the show/hide flag, the colour set in
\* use, where the loop stands and the number of keys it has read.
menu == <<show_solution, maze_color, loop, keys>>

\* What no method writes: the arguments of the constructor, the generator
\* asked for and the seed the random source was given; with them `first`
\* and the output file and the locals of the menu loop, which the methods
\* do not know of, and the number of generator calls made again on an
\* instance.
config == <<cls, height, width, entry, exit, perfect, algo, seed,
            cells_count, first, file, show_solution, maze_color, loop, keys,
            calls>>

(***************************************************************************)
(* Bounds of the model.                                                    *)
(***************************************************************************)
MaxSeed == 2

\* Solver calls made on one instance.
MaxSolves == 1

\* Keys read by the menu loop.
MaxKeys == 3

\* Generator calls made again on an instance.
MaxCalls == 1

\* <<height, width>> of the mazes constructed.
Sizes == {<<2, 2>>, <<3, 3>>, <<7, 7>>, <<7, 9>>}

Classes == {"MazeGenerator", "Maze"}

InGrid(h, w, p) == p[1] >= 0 /\ p[1] < h /\ p[2] >= 0 /\ p[2] < w

Pos(h, w) == (0 .. h - 1) \X (0 .. w - 1)

\* Entry cells tried: every cell of a small grid; on a large grid the
\* corners, the centre, a cell right of the "2" and a cell of the "4".
Probe(h, w) ==
    IF h * w <= 9 THEN Pos(h, w)
    ELSE {p \in {<<0, 0>>, <<h - 1, w - 1>>, <<h - 1, 0>>,
                 <<h \div 2, w \div 2>>,
                 <<(h \div 2) + 1, (w \div 2) + 3>>,
                 <<h \div 2, (w \div 2) - 3>>} : InGrid(h, w, p)}

(***************************************************************************)
(* Cell and construction.                                                  *)
(***************************************************************************)
Cell == [walls |-> [T |-> TRUE, B |-> TRUE, L |-> TRUE, R |-> TRUE],
         logo |-> FALSE, visited |-> FALSE, solution |-> FALSE]

\* A list index as Python reads it: a negative one counts from the end.
Index(i, n) == IF i < 0 THEN i + n ELSE i

\* Mutant: the entry cell is not marked visited.
generate_maze_noentry(h, w, e) == [p \in Pos(h, w) |-> Cell]

generate_maze(h, w, e) ==
    [p \in Pos(h, w) |->
        IF p = <<Index(e[1], h), Index(e[2], w)>>
        THEN [Cell EXCEPT !.visited = TRUE] ELSE Cell]

\* The 18 cells of the "42" pattern, relative to the centre of the grid.
LogoCells(h, w) ==
    LET x == (w \div 2) - 3
        y == (h \div 2) - 2
    IN {<<y, x>>, <<y + 1, x>>, <<y + 2, x>>, <<y + 2, x + 1>>,
        <<y + 2, x + 2>>, <<y + 3, x + 2>>, <<y + 4, x + 2>>,
        <<y + 4, x + 4>>, <<y + 4, x + 5>>, <<y + 4, x + 6>>,
        <<y + 3, x + 4>>, <<y + 2, x + 4>>, <<y + 2, x + 5>>,
        <<y + 2, x + 6>>, <<y + 1, x + 6>>, <<y, x + 6>>,
        <<y, x + 5>>, <<y, x + 4>>}

declare_logo(cs, h, w) ==
    [p \in DOMAIN cs |->
        IF p \in LogoCells(h, w) THEN [cs[p] EXCEPT !.logo = TRUE] ELSE cs[p]]

\* MazeGenerator.__init__ raises ValueError below 9 x 7.
GeneratorAccepts(h, w) == w >= 9 /\ h >= 7

\* Maze.__init__ declares the logo from 7 x 7 on and never raises.
MazeHasLogo(h, w) == w >= 7 /\ h >= 7

Construct(c, h, w, e) ==
    IF c = "MazeGenerator"
    THEN IF GeneratorAccepts(h, w)
         THEN [ok |-> TRUE, cells |-> declare_logo(generate_maze(h, w, e), h, w)]
         ELSE [ok |-> FALSE, cells |-> generate_maze(h, w, e)]
    ELSE IF MazeHasLogo(h, w)
         THEN [ok |-> TRUE, cells |-> declare_logo(generate_maze(h, w, e), h, w)]
         ELSE [ok |-> TRUE, cells |-> generate_maze(h, w, e)]

None == [none |-> TRUE, path |-> <<>>]

\* The exit of the mazes constructed: the corner opposite the origin, or
\* the origin when that corner is the entry.
FarCorner(h, w, e) == IF e = <<h - 1, w - 1>> THEN <<0, 0>> ELSE <<h - 1, w - 1>>

\* No direction line, and the output file before it is first written.
NoLine == [none |-> TRUE, letters |-> <<>>]

NoFile == [written |-> FALSE, grid |-> <<>>, entry |-> <<>>, exit |-> <<>>,
           path |-> NoLine]

\* The walls of an earlier run, kept to compare a later run with.
NoRun == [none |-> TRUE, walls |-> <<>>]

Algos == {"DFS", "PRIME"}

\* main before its loop: show_solution = True, maze_colors['1'].
InitMenu ==
    /\ show_solution = TRUE
    /\ maze_color = 1
    /\ loop = "getch"
    /\ keys = 0
    /\ calls = 0

Init ==
    \E c \in Classes, sz \in Sizes, p \in BOOLEAN, s \in 0 .. MaxSeed,
       a \in Algos :
      \E e \in Probe(sz[1], sz[2]) :
        LET made == Construct(c, sz[1], sz[2], e) IN
        /\ cls = c
        /\ height = sz[1]
        /\ width = sz[2]
        /\ entry = e
        /\ exit = FarCorner(sz[1], sz[2], e)
        /\ perfect = p
        /\ algo = a
        /\ seed = s
        /\ first = NoRun
        /\ file = NoFile
        /\ rng = s
        /\ cells = made.cells
        /\ visited_count = 1
        /\ cells_count = sz[1] * sz[2]
        /\ pc = IF made.ok THEN "new" ELSE "raised"
        /\ stack = <<>>
        /\ choices = {}
        /\ cur = e
        /\ bpos = 0
        /\ ret = None
        /\ args = <<e, e>>
        /\ solves = 0
        /\ InitMenu

(***************************************************************************)
(* Construction from arguments that may be invalid.  The application       *)
(* builds its Maze from what parse_config returns; a MazeGenerator is      *)
(* built by its caller, and fails where a list index is out of range.      *)
(***************************************************************************)
\* The checks of parse_config on sizes, entry and exit (x is the column).
parse_config(h, w, e, x) ==
    /\ ~(w <= 0 \/ h <= 0)
    /\ (0 <= e[2] /\ e[2] < w /\ 0 <= e[1] /\ e[1] < h)
    /\ (0 <= x[2] /\ x[2] < w /\ 0 <= x[1] /\ x[1] < h)
    /\ ~(e[2] = x[2] /\ e[1] = x[1])

\* self.cells[entry[0]][entry[1]] does not raise IndexError.
Indexable(h, w, e) ==
    /\ 0 - h <= e[1] /\ e[1] < h
    /\ 0 - w <= e[2] /\ e[2] < w

Failed(h, w) == [ok |-> FALSE, cells |-> [p \in Pos(h, w) |-> Cell]]

New(c, h, w, e, x) ==
    IF c = "Maze"
    THEN IF parse_config(h, w, e, x) THEN Construct(c, h, w, e)
         ELSE Failed(h, w)
    ELSE IF Indexable(h, w, e) THEN Construct(c, h, w, e)
         ELSE Failed(h, w)

\* <<height, width>> and cells given as arguments.
ArgSizes == {<<0, 9>>, <<7, 0>>, <<3, 3>>, <<7, 9>>}

ArgCells(h, w) == {<<0, 0>>, <<0 - 1, 0 - 1>>, <<h, w>>, <<h - 1, w - 1>>}

\* Sizes positive, entry and exit in the grid and distinct.
ValidArgs(h, w, e, x) ==
    h > 0 /\ w > 0 /\ InGrid(h, w, e) /\ InGrid(h, w, x) /\ e # x

\* Construction from arguments of which one at least is invalid.  Where an
\* object is built, generation can be called on it when entry is a cell of
\* the grid ("new"); with a negative entry it is only held ("accepted").
InitArgs ==
    \E c \in Classes, sz \in ArgSizes :
      \E e \in ArgCells(sz[1], sz[2]), x \in ArgCells(sz[1], sz[2]) :
        LET made == New(c, sz[1], sz[2], e, x) IN
        /\ ~ValidArgs(sz[1], sz[2], e, x)
        /\ cls = c
        /\ height = sz[1]
        /\ width = sz[2]
        /\ entry = e
        /\ exit = x
        /\ perfect = TRUE
        /\ algo = "DFS"
        /\ seed = 0
        /\ first = NoRun
        /\ file = NoFile
        /\ rng = 0
        /\ cells = made.cells
        /\ visited_count = 1
        /\ cells_count = sz[1] * sz[2]
        /\ pc = IF ~made.ok THEN "raised"
                ELSE IF InGrid(sz[1], sz[2], e) THEN "new" ELSE "accepted"
        /\ stack = <<>>
        /\ choices = {}
        /\ cur = e
        /\ bpos = 0
        /\ ret = None
        /\ args = <<e, e>>
        /\ solves = 0
        /\ InitMenu

InitAny == Init \/ InitArgs

(***************************************************************************)
(* The random source.                                                      *)
(***************************************************************************)
NextRng(r) == (r * 75 + 74) % 65537

\* random.shuffle: for i in reversed(range(1, len(x))): j = randbelow(i + 1)
RECURSIVE ShuffleFrom(_, _, _)
ShuffleFrom(s, r, i) ==
    IF i < 2 THEN [seq |-> s, rng |-> r]
    ELSE LET r1 == NextRng(r)
             j == (r1 % i) + 1
         IN ShuffleFrom([s EXCEPT ![i] = s[j], ![j] = s[i]], r1, i - 1)

\* Mutant: the shuffle draws from a source the seed does not govern, which
\* yields other outcomes in a later run.
shuffle_unseeded(s, r) ==
    ShuffleFrom(s, r + (IF first.none THEN 0 ELSE 1), Len(s))

shuffle(s, r) == ShuffleFrom(s, r, Len(s))

(***************************************************************************)
(* Wall opening between a cell and a grid neighbour.                       *)
(***************************************************************************)
Up(p) == <<p[1] - 1, p[2]>>
Down(p) == <<p[1] + 1, p[2]>>
Left(p) == <<p[1], p[2] - 1>>
Right(p) == <<p[1], p[2] + 1>>

OpenT(cs, p) == [cs EXCEPT ![p].walls.T = FALSE, ![Up(p)].walls.B = FALSE]
OpenB(cs, p) == [cs EXCEPT ![p].walls.B = FALSE, ![Down(p)].walls.T = FALSE]
OpenL(cs, p) == [cs EXCEPT ![p].walls.L = FALSE, ![Left(p)].walls.R = FALSE]
OpenR(cs, p) == [cs EXCEPT ![p].walls.R = FALSE, ![Right(p)].walls.L = FALSE]

\* Mutant: the visited flag of the cell is not set.
Visit_unmarked(cs, p) == cs

Visit(cs, p) == [cs EXCEPT ![p].visited = TRUE]

\* Mutant: the visited test of the choices is forgotten.
Free_visited(cs, h, w, p) == InGrid(h, w, p) /\ ~cs[p].logo

\* Mutant: the logo test of the choices is forgotten.
Free_nologo(cs, h, w, p) == InGrid(h, w, p) /\ ~cs[p].visited

Free(cs, h, w, p) == InGrid(h, w, p) /\ ~cs[p].visited /\ ~cs[p].logo

(***************************************************************************)
(* Recursive backtracker: dfs_algo (MazeGenerator) / dfs (Maze).           *)
(* `stack` holds one frame per active call, the innermost first: the cell, *)
(* its shuffled choices and the index of the next choice of the for loop.  *)
(***************************************************************************)
\* Mutant: the test of the left neighbour is forgotten.
dfs_choices_noleft(cs, h, w, p) ==
    SelectSeq(<<Right(p), Down(p), Up(p)>>, LAMBDA n : Free(cs, h, w, n))

dfs_choices(cs, h, w, p) ==
    SelectSeq(<<Right(p), Down(p), Up(p), Left(p)>>,
              LAMBDA n : Free(cs, h, w, n))

\* Entering a call at p: no choices, return at once; otherwise shuffle.
dfs_enter(cs, h, w, st, r, p) ==
    LET ch == dfs_choices(cs, h, w, p) IN
    IF ch = <<>> THEN [stack |-> st, rng |-> r]
    ELSE LET sh == shuffle(ch, r)
         IN [stack |-> <<[pos |-> p, choices |-> sh.seq, i |-> 1]>> \o st,
             rng |-> sh.rng]

\* Mutant: only the wall flag of the neighbour is cleared.
dfs_open_oneside(cs, p, n) ==
    LET c1 == IF n[1] - p[1] > 0 THEN [cs EXCEPT ![n].walls.T = FALSE] ELSE cs
        c2 == IF n[2] - p[2] > 0 THEN [c1 EXCEPT ![n].walls.L = FALSE] ELSE c1
        c3 == IF n[2] - p[2] < 0 THEN [c2 EXCEPT ![n].walls.R = FALSE] ELSE c2
    IN IF n[1] - p[1] < 0 THEN [c3 EXCEPT ![n].walls.B = FALSE] ELSE c3

\* Mutant: the first delta test clears the two flags on the wrong sides.
dfs_open_swapped(cs, p, n) ==
    LET c1 == IF n[1] - p[1] > 0
              THEN [cs EXCEPT ![n].walls.B = FALSE, ![p].walls.T = FALSE]
              ELSE cs
        c2 == IF n[2] - p[2] > 0
              THEN [c1 EXCEPT ![n].walls.L = FALSE, ![p].walls.R = FALSE]
              ELSE c1
        c3 == IF n[2] - p[2] < 0
              THEN [c2 EXCEPT ![n].walls.R = FALSE, ![p].walls.L = FALSE]
              ELSE c2
    IN IF n[1] - p[1] < 0
       THEN [c3 EXCEPT ![n].walls.B = FALSE, ![p].walls.T = FALSE]
       ELSE c3

\* The four delta tests of the loop body, each writing both cells.
dfs_open(cs, p, n) ==
    LET c1 == IF n[1] - p[1] > 0
              THEN [cs EXCEPT ![n].walls.T = FALSE, ![p].walls.B = FALSE]
              ELSE cs
        c2 == IF n[2] - p[2] > 0
              THEN [c1 EXCEPT ![n].walls.L = FALSE, ![p].walls.R = FALSE]
              ELSE c1
        c3 == IF n[2] - p[2] < 0
              THEN [c2 EXCEPT ![n].walls.R = FALSE, ![p].walls.L = FALSE]
              ELSE c2
    IN IF n[1] - p[1] < 0
       THEN [c3 EXCEPT ![n].walls.B = FALSE, ![p].walls.T = FALSE]
       ELSE c3

\* Mutant: the loop body never skips a choice.
dfs_taken_never(cs, n) == FALSE

\* The test of the loop body that skips a choice visited meanwhile.
dfs_taken(cs, n) == cs[n].visited

\* Mutant: the comparison of the recursion guard is inverted.
dfs_recurse_inverted(vc, cc) == vc > cc

\* The recursion guard of the loop body.
dfs_recurse(vc, cc) == vc < cc

\* Mutant: the test of the perfect flag is forgotten.
after_carving_always(pf) == "braid"

\* What follows the carving: the braid pass when the maze is not perfect
\* (inside dfs/prime for MazeGenerator, in main for Maze).
after_carving(pf) == IF ~pf THEN "braid" ELSE "idle"

dfs_pc(st, pf) == IF st = <<>> THEN after_carving(pf) ELSE "dfs"

CallDfs ==
    /\ pc = "new"
    /\ algo = "DFS"
    /\ LET e == dfs_enter(cells, height, width, <<>>, rng, entry) IN
       /\ stack' = e.stack
       /\ rng' = e.rng
       /\ pc' = dfs_pc(e.stack, perfect)
    /\ UNCHANGED <<solves, config, cells, visited_count, choices, cur, bpos, ret, args>>

DfsSkip ==
    /\ pc = "dfs"
    /\ stack # <<>>
    /\ LET f == Head(stack) IN
       /\ f.i <= Len(f.choices)
       /\ dfs_taken(cells, f.choices[f.i])
       /\ stack' = <<[f EXCEPT !.i = f.i + 1]>> \o Tail(stack)
    /\ UNCHANGED <<solves, config, rng, cells, visited_count, pc, choices, cur, bpos,
                   ret, args>>

DfsCarve ==
    /\ pc = "dfs"
    /\ stack # <<>>
    /\ LET f == Head(stack) IN
       /\ f.i <= Len(f.choices)
       /\ ~dfs_taken(cells, f.choices[f.i])
       /\ LET n == f.choices[f.i]
              cs == Visit(dfs_open(cells, f.pos, n), n)
              st == <<[f EXCEPT !.i = f.i + 1]>> \o Tail(stack)
              e == IF dfs_recurse(visited_count + 1, cells_count)
                   THEN dfs_enter(cs, height, width, st, rng, n)
                   ELSE [stack |-> st, rng |-> rng]
          IN /\ cells' = cs
             /\ visited_count' = visited_count + 1
             /\ stack' = e.stack
             /\ rng' = e.rng
    /\ UNCHANGED <<solves, config, pc, choices, cur, bpos, ret, args>>

DfsReturn ==
    /\ pc = "dfs"
    /\ stack # <<>>
    /\ Head(stack).i > Len(Head(stack).choices)
    /\ stack' = Tail(stack)
    /\ pc' = dfs_pc(Tail(stack), perfect)
    /\ UNCHANGED <<solves, config, rng, cells, visited_count, choices, cur, bpos,
                   ret, args>>

(***************************************************************************)
(* Frontier growth: prime.  One action per iteration of the while loop.    *)
(***************************************************************************)
\* list(choices): the frontier in row-major order.
RECURSIVE SetToSeq(_)
SetToSeq(S) ==
    IF S = {} THEN <<>>
    ELSE LET m == CHOOSE a \in S :
                    \A b \in S : a[1] < b[1] \/ (a[1] = b[1] /\ a[2] <= b[2])
         IN <<m>> \o SetToSeq(S \ {m})

\* Mutant: the frontier kept from the earlier iterations is forgotten.
frontier_local(cs, h, w, ch, p) ==
    {n \in {Right(p), Down(p), Up(p), Left(p)} : Free(cs, h, w, n)}

frontier(cs, h, w, ch, p) ==
    ch \cup {n \in {Right(p), Down(p), Up(p), Left(p)} : Free(cs, h, w, n)}

\* random.choice(list(choices))
choice(S, r) == SetToSeq(S)[(r % Cardinality(S)) + 1]

\* Mutant: the Left test stands before the Top test.
prime_open_leftfirst(cs, h, w, n) ==
    IF n[2] - 1 >= 0 /\ cs[Left(n)].visited THEN OpenL(cs, n)
    ELSE IF n[1] - 1 >= 0 /\ cs[Up(n)].visited THEN OpenT(cs, n)
    ELSE IF n[2] + 1 < w /\ cs[Right(n)].visited THEN OpenR(cs, n)
    ELSE IF n[1] + 1 < h /\ cs[Down(n)].visited THEN OpenB(cs, n)
    ELSE cs

\* The if/elif chain: the wall toward the first visited neighbour.
prime_open(cs, h, w, n) ==
    IF n[1] - 1 >= 0 /\ cs[Up(n)].visited THEN OpenT(cs, n)
    ELSE IF n[2] - 1 >= 0 /\ cs[Left(n)].visited THEN OpenL(cs, n)
    ELSE IF n[2] + 1 < w /\ cs[Right(n)].visited THEN OpenR(cs, n)
    ELSE IF n[1] + 1 < h /\ cs[Down(n)].visited THEN OpenB(cs, n)
    ELSE cs

CallPrime ==
    /\ pc = "new"
    /\ algo = "PRIME"
    /\ pc' = "prime"
    /\ choices' = {}
    /\ cur' = entry
    /\ UNCHANGED <<solves, config, rng, cells, visited_count, stack, bpos, ret, args>>

PrimeGrow ==
    /\ pc = "prime"
    /\ visited_count < cells_count
    /\ LET ch == frontier(cells, height, width, choices, cur) IN
       /\ ch # {}
       /\ LET r1 == NextRng(rng)
              n == choice(ch, r1)
          IN /\ rng' = r1
             /\ choices' = ch \ {n}
             /\ cells' = Visit(prime_open(cells, height, width, n), n)
             /\ visited_count' = visited_count + 1
             /\ cur' = n
    /\ UNCHANGED <<solves, config, pc, stack, bpos, ret, args>>

PrimeBreak ==
    /\ pc = "prime"
    /\ visited_count < cells_count
    /\ frontier(cells, height, width, choices, cur) = {}
    /\ pc' = after_carving(perfect)
    /\ UNCHANGED <<solves, config, rng, cells, visited_count, stack, choices, cur,
                   bpos, ret, args>>

PrimeDone ==
    /\ pc = "prime"
    /\ ~(visited_count < cells_count)
    /\ pc' = after_carving(perfect)
    /\ UNCHANGED <<solves, config, rng, cells, visited_count, stack, choices, cur,
                   bpos, ret, args>>

(***************************************************************************)
(* Braid pass: make_it_imperfect.  One action per cell of the scan, in     *)
(* row-major order; bpos is the row-major index of the next cell.          *)
(***************************************************************************)
\* Mutant: the logo tests of the four neighbours are forgotten.
braid_guard_self(cs, h, w, p) ==
    /\ p[2] + 1 < w /\ p[2] - 1 >= 0
    /\ p[1] + 1 < h /\ p[1] - 1 >= 0
    /\ ~cs[p].logo

\* The guard of the loop body: an interior cell, itself and its four
\* neighbours not of the logo.
braid_guard(cs, h, w, p) ==
    /\ p[2] + 1 < w /\ p[2] - 1 >= 0
    /\ p[1] + 1 < h /\ p[1] - 1 >= 0
    /\ ~cs[p].logo
    /\ ~cs[Right(p)].logo
    /\ ~cs[Left(p)].logo
    /\ ~cs[Down(p)].logo
    /\ ~cs[Up(p)].logo

braid_top(cs, p) ==
    /\ cs[p].walls.T
    /\ (cs[Right(p)].walls.T \/ cs[Up(Right(p))].walls.L)
    /\ (cs[Left(p)].walls.T \/ cs[Up(Left(p))].walls.R)

braid_left(cs, p) ==
    /\ cs[p].walls.L
    /\ (cs[Down(p)].walls.L \/ cs[Down(Left(p))].walls.T)
    /\ (cs[Up(p)].walls.L \/ cs[Up(Left(p))].walls.B)

\* Mutant: the tests of the cell's own walls are forgotten and the flags
\* are flipped instead of cleared.
braid_cell_toggle(cs, h, w, p) ==
    IF braid_guard(cs, h, w, p)
    THEN LET t == ~cs[p].walls.T
             c1 == IF (cs[Right(p)].walls.T \/ cs[Up(Right(p))].walls.L)
                      /\ (cs[Left(p)].walls.T \/ cs[Up(Left(p))].walls.R)
                   THEN [cs EXCEPT ![p].walls.T = t, ![Up(p)].walls.B = t]
                   ELSE cs
         IN IF braid_left(c1, p) THEN OpenL(c1, p) ELSE c1
    ELSE cs

braid_cell(cs, h, w, p) ==
    IF braid_guard(cs, h, w, p)
    THEN LET c1 == IF braid_top(cs, p) THEN OpenT(cs, p) ELSE cs
         IN IF braid_left(c1, p) THEN OpenL(c1, p) ELSE c1
    ELSE cs

BraidStep ==
    /\ pc = "braid"
    /\ bpos < height * width
    /\ cells' = braid_cell(cells, height, width,
                           <<bpos \div width, bpos % width>>)
    /\ bpos' = bpos + 1
    /\ UNCHANGED <<solves, config, rng, visited_count, pc, stack, choices, cur,
                   ret, args>>

BraidDone ==
    /\ pc = "braid"
    /\ bpos = height * width
    /\ pc' = "idle"
    /\ bpos' = 0
    /\ UNCHANGED <<solves, config, rng, cells, visited_count, stack, choices, cur,
                   ret, args>>

(***************************************************************************)
(* Solver: bfs_solver and get_neighbors.                                   *)
(***************************************************************************)
\* Mutant: the wall tests are forgotten, only the bounds are checked.
get_neighbors_nowalls(cs, h, w, p) ==
    (IF p[2] + 1 < w THEN <<Right(p)>> ELSE <<>>)
    \o (IF p[1] + 1 < h THEN <<Down(p)>> ELSE <<>>)
    \o (IF p[2] - 1 >= 0 THEN <<Left(p)>> ELSE <<>>)
    \o (IF p[1] - 1 >= 0 THEN <<Up(p)>> ELSE <<>>)

get_neighbors(cs, h, w, p) ==
    (IF ~cs[p].walls.R /\ p[2] + 1 < w THEN <<Right(p)>> ELSE <<>>)
    \o (IF ~cs[p].walls.B /\ p[1] + 1 < h THEN <<Down(p)>> ELSE <<>>)
    \o (IF ~cs[p].walls.L /\ p[2] - 1 >= 0 THEN <<Left(p)>> ELSE <<>>)
    \o (IF ~cs[p].walls.T /\ p[1] - 1 >= 0 THEN <<Up(p)>> ELSE <<>>)

\* Mutant: path.reverse() is forgotten.
RECURSIVE bfs_path_noreverse(_, _)
bfs_path_noreverse(parent, node) ==
    IF parent[node] = <<>> THEN <<node>>
    ELSE <<node>> \o bfs_path_noreverse(parent, parent[node])

\* The parent links followed from end back to start, then reversed.
RECURSIVE bfs_path(_, _)
bfs_path(parent, node) ==
    IF parent[node] = <<>> THEN <<node>>
    ELSE bfs_path(parent, parent[node]) \o <<node>>

\* Mutant: child.pop(), the queue used as a stack.
bfs_pop_last(child) ==
    [curr |-> child[Len(child)], rest |-> SubSeq(child, 1, Len(child) - 1)]

\* child.pop(0)
bfs_pop(child) == [curr |-> Head(child), rest |-> Tail(child)]

\* The inner for loop over the neighbours of curr.  vis is the set of the
\* cells whose visited flag is True.
RECURSIVE bfs_expand(_, _, _, _, _)
bfs_expand(vis, child, parent, curr, ns) ==
    IF ns = <<>> THEN [vis |-> vis, child |-> child, parent |-> parent]
    ELSE LET n == Head(ns) IN
         IF n \notin vis
         THEN bfs_expand(vis \cup {n}, Append(child, n),
                         (n :> curr) @@ parent, curr, Tail(ns))
         ELSE bfs_expand(vis, child, parent, curr, Tail(ns))

\* The while loop over the queue.
RECURSIVE bfs_loop(_, _, _, _, _, _, _)
bfs_loop(cs, h, w, vis, child, parent, end) ==
    IF child = <<>> THEN [ret |-> None, vis |-> vis]
    ELSE LET q == bfs_pop(child) IN
         IF q.curr = end
         THEN [ret |-> [none |-> FALSE, path |-> bfs_path(parent, end)],
               vis |-> vis]
         ELSE LET e == bfs_expand(vis, q.rest, parent, q.curr,
                                  get_neighbors(cs, h, w, q.curr))
              IN bfs_loop(cs, h, w, e.vis, e.child, e.parent, end)

\* Mutant: the reset of the visited flags is forgotten.
bfs_marks_noreset(cs, vis) ==
    [p \in DOMAIN cs |-> [cs[p] EXCEPT !.visited = cs[p].visited \/ p \in vis]]

\* The visited flags after the call: reset on the whole grid, then set on
\* the cells the search marked.
bfs_marks(cs, vis) == [p \in DOMAIN cs |-> [cs[p] EXCEPT !.visited = p \in vis]]

bfs_solver(cs, h, w, start, end) ==
    LET r == bfs_loop(cs, h, w, {start}, <<start>>, (start :> <<>>), end)
    IN [ret |-> r.ret, cells |-> bfs_marks(cs, r.vis)]

(***************************************************************************)
(* Notions the properties are stated with, defined on the wall flags       *)
(* alone.                                                                  *)
(***************************************************************************)
Cells == DOMAIN cells

Sides == {"T", "B", "L", "R"}

Facing(p, side) ==
    CASE side = "T" -> Up(p)
      [] side = "B" -> Down(p)
      [] side = "L" -> Left(p)
      [] side = "R" -> Right(p)

Opposite(side) ==
    CASE side = "T" -> "B"
      [] side = "B" -> "T"
      [] side = "L" -> "R"
      [] side = "R" -> "L"

GridNeighbours(p) == {Facing(p, s) : s \in Sides} \cap Cells

\* The cells one step from p through a side of p without a wall.
Passages(cs, p) ==
    {Facing(p, s) : s \in {t \in Sides : ~cs[p].walls[t]}} \cap DOMAIN cs

\* The open walls, each as the pair of a cell and its right or lower
\* neighbour.
OpenWalls(cs) ==
    {<<p, Right(p)>> :
        p \in {q \in DOMAIN cs : Right(q) \in DOMAIN cs /\ ~cs[q].walls.R}}
    \cup
    {<<p, Down(p)>> :
        p \in {q \in DOMAIN cs : Down(q) \in DOMAIN cs /\ ~cs[q].walls.B}}

\* Breadth-first layers: the cells reached from front, given those done.
RECURSIVE Grow(_, _, _)
Grow(cs, done, front) ==
    IF front = {} THEN done
    ELSE LET nxt == (UNION {Passages(cs, p) : p \in front}) \ done
         IN Grow(cs, done \cup nxt, nxt)

Reach(cs, p) == Grow(cs, {p}, {p})

\* The number of layers until q is reached from p; -1 when it never is.
RECURSIVE Layers(_, _, _, _, _)
Layers(cs, done, front, q, k) ==
    IF q \in front THEN k
    ELSE IF front = {} THEN 0 - 1
    ELSE LET nxt == (UNION {Passages(cs, p) : p \in front}) \ done
         IN Layers(cs, done \cup nxt, nxt, q, k + 1)

Dist(cs, p, q) == Layers(cs, {p}, {p}, q, 0)

\* The cells reached from p by grid steps through cells not of the logo.
RECURSIVE GridGrow(_, _, _)
GridGrow(cs, done, front) ==
    IF front = {} THEN done
    ELSE LET nxt == {q \in UNION {GridNeighbours(p) : p \in front} :
                        ~cs[q].logo} \ done
         IN GridGrow(cs, done \cup nxt, nxt)

GridReach(cs, p) == GridGrow(cs, {p}, {p})

Visited(cs) == {p \in DOMAIN cs : cs[p].visited}

Logo(cs) == {p \in DOMAIN cs : cs[p].logo}

Highlighted(cs) == {p \in DOMAIN cs : cs[p].solution}

\* A generation call has returned and no solver call has been made yet.
Generated == pc = "idle" /\ solves = 0 /\ visited_count > 1

(***************************************************************************)
(* The solver as called.                                                   *)
(***************************************************************************)
Solve(start, end) ==
    /\ pc \in {"new", "idle"}
    /\ LET r == bfs_solver(cells, height, width, start, end) IN
       /\ cells' = r.cells
       /\ ret' = r.ret
    /\ args' = <<start, end>>
    /\ solves' = solves + 1
    /\ pc' = "idle"
    /\ UNCHANGED <<config, rng, visited_count, stack, choices, cur, bpos>>

\* The solver is called from entry to a probed cell, or back, while no
\* path is highlighted.
CallSolve ==
    /\ solves < MaxSolves
    /\ Highlighted(cells) = {}
    /\ \E other \in Probe(height, width) :
           \/ Solve(entry, other)
           \/ Solve(other, entry)

(***************************************************************************)
(* show_hide_solution_path, called with the path the solver returned last  *)
(* from entry, as main does: shown when no cell is highlighted, hidden     *)
(* when it is the path shown.                                              *)
(***************************************************************************)
Range(f) == {f[i] : i \in DOMAIN f}

show_hide_solution_path(cs, path, show) ==
    [p \in DOMAIN cs |->
        IF p \in Range(path) THEN [cs[p] EXCEPT !.solution = show] ELSE cs[p]]

Show ==
    /\ pc = "idle"
    /\ solves >= 1
    /\ ~ret.none
    /\ args[1] = entry
    /\ Highlighted(cells) = {}
    /\ cells' = show_hide_solution_path(cells, ret.path, TRUE)
    /\ UNCHANGED <<solves, config, rng, visited_count, pc, stack, choices,
                   cur, bpos, ret, args>>

Hide ==
    /\ pc = "idle"
    /\ solves >= 1
    /\ ~ret.none
    /\ Highlighted(cells) = Range(ret.path)
    /\ cells' = show_hide_solution_path(cells, ret.path, FALSE)
    /\ UNCHANGED <<solves, config, rng, visited_count, pc, stack, choices,
                   cur, bpos, ret, args>>

\* One more solver call from entry while a path is highlighted.
Resolve ==
    /\ solves <= MaxSolves
    /\ Highlighted(cells) # {}
    /\ \E other \in Probe(height, width) : Solve(entry, other)

(***************************************************************************)
(* Specification: one generation run on a freshly constructed maze, with   *)
(* solver calls before or after it.                                        *)
(***************************************************************************)
Next ==
    \/ CallDfs
    \/ DfsSkip
    \/ DfsCarve
    \/ DfsReturn
    \/ CallPrime
    \/ PrimeGrow
    \/ PrimeBreak
    \/ PrimeDone
    \/ BraidStep
    \/ BraidDone
    \/ CallSolve

Spec == Init /\ [][Next]_vars

\* The same, with the solution path shown and hidden between solver calls.
NextShow ==
    \/ Next
    \/ Show
    \/ Hide
    \/ Resolve

SpecShow == Init /\ [][NextShow]_vars

(***************************************************************************)
(* Output file: create_output_file.  A line of the grid is a sequence of   *)
(* one-character strings, the direction line a sequence of letters.        *)
(***************************************************************************)
hexa == <<"0", "1", "2", "3", "4", "5", "6", "7", "8", "9",
          "A", "B", "C", "D", "E", "F">>

\* Mutant: the right wall is added with the weight of the bottom wall.
total_rightasbottom(walls) ==
    (IF walls.T THEN 1 ELSE 0) + (IF walls.R THEN 4 ELSE 0)
    + (IF walls.B THEN 4 ELSE 0) + (IF walls.L THEN 8 ELSE 0)

\* The four if statements adding to total.
total(walls) ==
    (IF walls.T THEN 1 ELSE 0) + (IF walls.R THEN 2 ELSE 0)
    + (IF walls.B THEN 4 ELSE 0) + (IF walls.L THEN 8 ELSE 0)

\* Mutant: the letters are lower-case from 10 on.
hex_digit_lower(walls) ==
    <<"0", "1", "2", "3", "4", "5", "6", "7", "8", "9",
      "a", "b", "c", "d", "e", "f">>[total(walls) + 1]

\* f.write(hexa[total])
hex_digit(walls) == hexa[total(walls) + 1]

\* Mutant: the signs of the column test are confused, E and W exchanged.
RECURSIVE directions_westeast(_, _, _)
directions_westeast(x, y, solution) ==
    IF solution = <<>> THEN <<>>
    ELSE LET nx == Head(solution)[2]
             ny == Head(solution)[1]
             l == IF nx - x > 0 THEN <<"W">>
                  ELSE IF nx - x < 0 THEN <<"E">>
                  ELSE IF ny - y > 0 THEN <<"S">>
                  ELSE IF ny - y < 0 THEN <<"N">>
                  ELSE <<>>
         IN l \o directions_westeast(nx, ny, Tail(solution))

\* The for loop over the solution, x and y starting at entry.
RECURSIVE directions(_, _, _)
directions(x, y, solution) ==
    IF solution = <<>> THEN <<>>
    ELSE LET nx == Head(solution)[2]
             ny == Head(solution)[1]
             l == IF nx - x > 0 THEN <<"E">>
                  ELSE IF nx - x < 0 THEN <<"W">>
                  ELSE IF ny - y > 0 THEN <<"S">>
                  ELSE IF ny - y < 0 THEN <<"N">>
                  ELSE <<>>
         IN l \o directions(nx, ny, Tail(solution))

create_output_file(cs, h, w, e, x, solution) ==
    [written |-> TRUE,
     grid |-> [r \in 1 .. h |->
                  [c \in 1 .. w |-> hex_digit(cs[<<r - 1, c - 1>>].walls)]],
     entry |-> <<e[2], e[1]>>,
     exit |-> <<x[2], x[1]>>,
     path |-> IF solution.none THEN NoLine
              ELSE [none |-> FALSE,
                    letters |-> directions(e[2], e[1], solution.path)]]

\* The end of a turn of the menu loop: the solver from entry to exit, then
\* the file written from the maze and the solution.
WriteOutput ==
    /\ pc \in {"new", "idle"}
    /\ solves <= MaxSolves
    /\ LET r == bfs_solver(cells, height, width, entry, exit) IN
       /\ cells' = r.cells
       /\ ret' = r.ret
       /\ file' = create_output_file(r.cells, height, width, entry, exit,
                                     r.ret)
    /\ args' = <<entry, exit>>
    /\ solves' = solves + 1
    /\ pc' = "idle"
    /\ UNCHANGED <<cls, height, width, entry, exit, perfect, algo, seed,
                   cells_count, calls, first, rng, visited_count, stack, choices,
                   cur, bpos, menu>>

NextFile ==
    \/ Next
    \/ WriteOutput

SpecFile == Init /\ [][NextFile]_vars

(***************************************************************************)
(* A second run: the random source is seeded as it was, a maze is built    *)
(* with the same arguments, and the same generator runs on it.  The walls  *)
(* the first run ended with are kept in `first`.                           *)
(***************************************************************************)
Rerun ==
    /\ pc = "idle"
    /\ solves = 0
    /\ first.none
    /\ first' = [none |-> FALSE,
                 walls |-> [p \in DOMAIN cells |-> cells[p].walls]]
    /\ rng' = seed
    /\ cells' = Construct(cls, height, width, entry).cells
    /\ visited_count' = 1
    /\ pc' = "new"
    /\ stack' = <<>>
    /\ choices' = {}
    /\ cur' = entry
    /\ bpos' = 0
    /\ UNCHANGED <<cls, height, width, entry, exit, perfect, algo, seed,
                   cells_count, calls, ret, args, solves, file, menu>>

NextTwice ==
    \/ Next
    \/ Rerun

SpecTwice == Init /\ [][NextTwice]_vars

\* The same methods, on every maze the constructors yield.
SpecArgs == InitAny /\ [][Next]_vars

(***************************************************************************)
(* A generator called again on the instance it, or the other generator,    *)
(* has already carved, in perfect mode: dfs or prime from entry on the     *)
(* cells as they are, visited flags and visited_count included.  Where the *)
(* call comes after a solver call, the walls it found are kept in `first`. *)
(***************************************************************************)
CallAgain ==
    /\ pc = "idle"
    /\ perfect
    /\ visited_count > 1
    /\ calls < MaxCalls
    /\ calls' = calls + 1
    /\ first' = IF solves > 0
                THEN [none |-> FALSE,
                      walls |-> [p \in DOMAIN cells |-> cells[p].walls]]
                ELSE first
    /\ \E a \in Algos :
          /\ algo' = a
          /\ IF a = "DFS"
             THEN LET e == dfs_enter(cells, height, width, <<>>, rng, entry) IN
                  /\ stack' = e.stack
                  /\ rng' = e.rng
                  /\ pc' = dfs_pc(e.stack, perfect)
                  /\ UNCHANGED <<choices, cur>>
             ELSE /\ pc' = "prime"
                  /\ choices' = {}
                  /\ cur' = entry
                  /\ UNCHANGED <<stack, rng>>
    /\ UNCHANGED <<cls, height, width, entry, exit, perfect, seed,
                   cells_count, file, menu, cells, visited_count, bpos, ret,
                   args, solves>>

\* Perfect mode: no braid pass.
NextAgain ==
    \/ CallDfs
    \/ DfsSkip
    \/ DfsCarve
    \/ DfsReturn
    \/ CallPrime
    \/ PrimeGrow
    \/ PrimeBreak
    \/ PrimeDone
    \/ CallSolve
    \/ CallAgain

\* The instances a generator is called on again.
InitAgain ==
    /\ Init
    /\ perfect
    /\ entry \in {<<0, 0>>, <<height - 1, 0>>}

SpecAgain == InitAgain /\ [][NextAgain]_vars

(***************************************************************************)
(* make_it_imperfect called a second time, right after a first pass: the   *)
(* pass dfs, prime or main made on a braided maze, or a pass on a given    *)
(* wall configuration.  The walls the first pass ended with are kept in    *)
(* `first`.                                                                *)
(***************************************************************************)
\* The walls between two cells of the grid, each as the pair of a cell and
\* its right or lower neighbour.
InnerWalls(h, w) ==
    {<<p, Right(p)>> : p \in {q \in Pos(h, w) : InGrid(h, w, Right(q))}}
    \cup {<<p, Down(p)>> : p \in {q \in Pos(h, w) : InGrid(h, w, Down(q))}}

\* The symmetric configuration in which the walls of `open` are open and
\* every other wall is present.
WithOpen(h, w, e, open) ==
    [p \in Pos(h, w) |->
        [Cell EXCEPT !.walls = [T |-> <<Up(p), p>> \notin open,
                                B |-> <<p, Down(p)>> \notin open,
                                L |-> <<Left(p), p>> \notin open,
                                R |-> <<p, Right(p)>> \notin open],
                     !.visited = (p = e)]]

\* A 3 x 3 Maze given any symmetric wall configuration, make_it_imperfect
\* about to run on it.
InitWalls ==
    \E open \in SUBSET InnerWalls(3, 3) :
        /\ cls = "Maze"
        /\ height = 3
        /\ width = 3
        /\ entry = <<0, 0>>
        /\ exit = <<2, 2>>
        /\ perfect = FALSE
        /\ algo = "DFS"
        /\ seed = 0
        /\ first = NoRun
        /\ file = NoFile
        /\ rng = 0
        /\ cells = WithOpen(3, 3, <<0, 0>>, open)
        /\ visited_count = 1
        /\ cells_count = 9
        /\ pc = "braid"
        /\ stack = <<>>
        /\ choices = {}
        /\ cur = <<0, 0>>
        /\ bpos = 0
        /\ ret = None
        /\ args = <<<<0, 0>>, <<0, 0>>>>
        /\ solves = 0
        /\ InitMenu

InitBraid ==
    \/ Init /\ ~perfect
    \/ InitWalls

BraidAgain ==
    /\ pc = "idle"
    /\ first.none
    /\ first' = [none |-> FALSE,
                 walls |-> [p \in DOMAIN cells |-> cells[p].walls]]
    /\ pc' = "braid"
    /\ bpos' = 0
    /\ UNCHANGED <<cls, height, width, entry, exit, perfect, algo, seed,
                   cells_count, calls, file, menu, rng, cells, visited_count,
                   stack, choices, cur, ret, args, solves>>

NextBraid ==
    \/ CallDfs
    \/ DfsSkip
    \/ DfsCarve
    \/ DfsReturn
    \/ CallPrime
    \/ PrimeGrow
    \/ PrimeBreak
    \/ PrimeDone
    \/ BraidStep
    \/ BraidDone
    \/ BraidAgain

SpecBraid == InitBraid /\ [][NextBraid]_vars

(***************************************************************************)
(* The application: main's menu loop on a Maze built from a configuration  *)
(* parse_config accepts.  `loop` is where the loop stands: "getch" waiting *)
(* for a key, "generating" inside the handler of key '1', "quit" after     *)
(* key '4'.  `ret` is main's local `solution`.  In `first` the loop's      *)
(* observer keeps the walls the previous regeneration ended with.          *)
(***************************************************************************)
\* The configurations the application is run on.
InitApp ==
    /\ Init
    /\ cls = "Maze"
    /\ entry = <<0, 0>>

\* if solution: a list with a cell in it.
Truthy(solution) == ~solution.none /\ solution.path # <<>>

\* Mutant: the file is written from the solution of the turn before.
EndOfTurn_stale(cs) ==
    LET r == bfs_solver(cs, height, width, entry, exit) IN
    /\ cells' = r.cells
    /\ ret' = r.ret
    /\ args' = <<entry, exit>>
    /\ file' = create_output_file(r.cells, height, width, entry, exit, ret)
    /\ loop' = "getch"

\* The last two statements of a turn: the solver from entry to exit, then
\* the output file.
EndOfTurn(cs) ==
    LET r == bfs_solver(cs, height, width, entry, exit) IN
    /\ cells' = r.cells
    /\ ret' = r.ret
    /\ args' = <<entry, exit>>
    /\ file' = create_output_file(r.cells, height, width, entry, exit, r.ret)
    /\ loop' = "getch"

\* Mutant: the random source is never seeded again.
reseed_never(sd, r) == r

\* if seed: random.seed(seed)
reseed(sd, r) == IF sd # 0 THEN sd ELSE r

\* Key '1', up to the call of the generator on the new instance.
KeyRegenerate ==
    /\ loop = "getch"
    /\ keys < MaxKeys
    /\ keys' = keys + 1
    /\ rng' = reseed(seed, rng)
    /\ first' = IF pc = "idle"
                THEN [none |-> FALSE,
                      walls |-> [p \in DOMAIN cells |-> cells[p].walls]]
                ELSE NoRun
    /\ cells' = Construct(cls, height, width, entry).cells
    /\ visited_count' = 1
    /\ pc' = "new"
    /\ stack' = <<>>
    /\ choices' = {}
    /\ cur' = entry
    /\ bpos' = 0
    /\ loop' = "generating"
    /\ UNCHANGED <<cls, height, width, entry, exit, perfect, algo, seed,
                   cells_count, calls, ret, args, solves, file, show_solution,
                   maze_color>>

\* Key '1', the generator and the braid pass at work.
Generating ==
    /\ loop = "generating"
    /\ \/ CallDfs
       \/ DfsSkip
       \/ DfsCarve
       \/ DfsReturn
       \/ CallPrime
       \/ PrimeGrow
       \/ PrimeBreak
       \/ PrimeDone
       \/ BraidStep
       \/ BraidDone

\* Key '1', after the generator has returned.
RegenerateDone ==
    /\ loop = "generating"
    /\ pc = "idle"
    /\ EndOfTurn(cells)
    /\ UNCHANGED <<cls, height, width, entry, exit, perfect, algo, seed,
                   cells_count, calls, first, rng, visited_count, pc, stack, choices,
                   cur, bpos, solves, show_solution, maze_color, keys>>

\* Key '2'.
KeyShowHide ==
    /\ loop = "getch"
    /\ keys < MaxKeys
    /\ keys' = keys + 1
    /\ LET r == bfs_solver(cells, height, width, entry, exit) IN
       IF Truthy(r.ret)
       THEN /\ EndOfTurn(show_hide_solution_path(r.cells, r.ret.path,
                                                 show_solution))
            /\ show_solution' = ~show_solution
       ELSE /\ EndOfTurn(r.cells)
            /\ show_solution' = show_solution
    /\ UNCHANGED <<cls, height, width, entry, exit, perfect, algo, seed,
                   cells_count, calls, first, rng, visited_count, pc, stack, choices,
                   cur, bpos, solves, maze_color>>

\* random.randint(1, 6)
randint6(r) == (r % 6) + 1

\* Key '3'.
KeyColours ==
    /\ loop = "getch"
    /\ keys < MaxKeys
    /\ keys' = keys + 1
    /\ rng' = NextRng(rng)
    /\ maze_color' = randint6(NextRng(rng))
    /\ EndOfTurn(cells)
    /\ UNCHANGED <<cls, height, width, entry, exit, perfect, algo, seed,
                   cells_count, calls, first, visited_count, pc, stack, choices,
                   cur, bpos, solves, show_solution>>

\* Any key the menu does not name.
KeyOther ==
    /\ loop = "getch"
    /\ keys < MaxKeys
    /\ keys' = keys + 1
    /\ EndOfTurn(cells)
    /\ UNCHANGED <<cls, height, width, entry, exit, perfect, algo, seed,
                   cells_count, calls, first, rng, visited_count, pc, stack, choices,
                   cur, bpos, solves, show_solution, maze_color>>

\* Key '4': break, before the end of the turn.
KeyQuit ==
    /\ loop = "getch"
    /\ keys < MaxKeys
    /\ keys' = keys + 1
    /\ loop' = "quit"
    /\ UNCHANGED <<cls, height, width, entry, exit, perfect, algo, seed,
                   cells_count, calls, first, file, rng, cells, visited_count, pc,
                   stack, choices, cur, bpos, ret, args, solves,
                   show_solution, maze_color>>

NextApp ==
    \/ KeyRegenerate
    \/ Generating
    \/ RegenerateDone
    \/ KeyShowHide
    \/ KeyColours
    \/ KeyOther
    \/ KeyQuit

SpecApp == InitApp /\ [][NextApp]_vars

TypeOK ==
    /\ pc \in {"new", "raised", "accepted", "dfs", "prime", "braid", "idle"}
    /\ DOMAIN cells = Pos(height, width)
    /\ pc # "raised" => visited_count \in 1 .. cells_count
    /\ algo \in Algos
    /\ seed \in 0 .. MaxSeed
    /\ show_solution \in BOOLEAN
    /\ maze_color \in 1 .. 6
    /\ loop \in {"getch", "generating", "quit"}
    /\ keys \in 0 .. MaxKeys
    /\ calls \in 0 .. MaxCalls

(***************************************************************************)
(* C1: wall symmetry.  In every state, for every two grid-adjacent cells,  *)
(* the wall flag of the one on the side facing the other equals the wall   *)
(* flag of the other on the side facing the first.                         *)
(***************************************************************************)
C1_WallSymmetry ==
    \A p \in Cells : \A s \in Sides :
        Facing(p, s) \in Cells =>
            cells[p].walls[s] = cells[Facing(p, s)].walls[Opposite(s)]

\* A braided maze: the braid pass has opened walls on top of the carving.
C1_Witness ==
    /\ Generated
    /\ ~perfect
    /\ Cardinality(OpenWalls(cells)) > visited_count - 1

(***************************************************************************)
(* C2: reserved cells are generation-inert.  When entry is not a logo      *)
(* cell, in every state of construction, carving and braiding every logo   *)
(* cell has its four walls and is not visited, and no other cell has an    *)
(* open wall on a side facing a logo cell.                                 *)
(***************************************************************************)
C2_ReservedInert ==
    (solves = 0 /\ ~cells[entry].logo) =>
        \A p \in Cells :
            /\ cells[p].logo =>
                   /\ \A s \in Sides : cells[p].walls[s]
                   /\ ~cells[p].visited
            /\ \A s \in Sides :
                   (Facing(p, s) \in Cells /\ cells[Facing(p, s)].logo)
                       => cells[p].walls[s]

\* A braided maze with a logo, all of whose carvable cells were visited.
C2_Witness ==
    /\ Generated
    /\ ~perfect
    /\ ~cells[entry].logo
    /\ Logo(cells) # {}
    /\ Cardinality(Visited(cells)) > 40

(***************************************************************************)
(* C3: spanning tree.  After a perfect-mode run of dfs or prime on a fresh *)
(* maze the open walls join visited cells only, the visited cells are all  *)
(* joined to entry, and there is one open wall less than visited cells:    *)
(* the open-wall graph on the visited cells is a tree, so one simple path  *)
(* joins each visited cell to entry.                                       *)
(***************************************************************************)
C3_SpanningTree ==
    (pc = "idle" /\ solves = 0 /\ perfect) =>
        /\ \A pq \in OpenWalls(cells) :
               cells[pq[1]].visited /\ cells[pq[2]].visited
        /\ Reach(cells, entry) = Visited(cells)
        /\ Cardinality(OpenWalls(cells)) = Cardinality(Visited(cells)) - 1

C3_Witness ==
    /\ Generated
    /\ perfect
    /\ Cardinality(Visited(cells)) > 40

(***************************************************************************)
(* C4: completeness.  When the carving of dfs or prime has returned on a   *)
(* fresh maze whose entry is not a logo cell, the visited cells are the    *)
(* cells reached from entry by grid steps through cells not of the logo.   *)
(***************************************************************************)
C4_Complete ==
    (pc \in {"braid", "idle"} /\ solves = 0 /\ visited_count > 1
        /\ ~cells[entry].logo)
        => Visited(cells) = GridReach(cells, entry)

\* A run from inside the pocket the logo seals off on a 7 x 7 grid.
C4_Witness ==
    /\ Generated
    /\ ~cells[entry].logo
    /\ Logo(cells) # {}
    /\ Cardinality(Visited(cells)) = 2

(***************************************************************************)
(* C5: after a perfect-mode run from a non-logo entry, bfs_solver(entry,   *)
(* exit) returns a path for every non-logo exit other than entry, on every *)
(* grid the constructor accepts.                                           *)
(***************************************************************************)
C5_AlwaysSolvable ==
    (/\ pc = "idle" /\ solves >= 1 /\ perfect /\ visited_count > 1
     /\ args[1] = entry /\ args[2] # entry
     /\ ~cells[entry].logo /\ ~cells[args[2]].logo)
        => ~ret.none

(***************************************************************************)
(* C6: minimality.  A path returned by bfs_solver(start, end) has as many  *)
(* steps as the open-wall distance from start to end.                      *)
(***************************************************************************)
C6_Minimal ==
    (solves >= 1 /\ ~ret.none) =>
        Len(ret.path) - 1 = Dist(cells, args[1], args[2])

\* A path of several steps in a braided maze, where the open walls form
\* cycles.
C6_Witness ==
    /\ solves >= 1
    /\ ~ret.none
    /\ Len(ret.path) > 4
    /\ ~perfect
    /\ Cardinality(OpenWalls(cells)) > visited_count - 1

(***************************************************************************)
(* C7: path validity.  A path returned by bfs_solver(start, end) begins at *)
(* start, ends at end, has no cell twice, and each cell is followed by a   *)
(* grid neighbour with no wall between them, on either side; for           *)
(* start = end it is <<start>>.                                            *)
(***************************************************************************)
C7_ValidPath ==
    (solves >= 1 /\ ~ret.none) =>
        LET path == ret.path IN
        /\ Len(path) >= 1
        /\ path[1] = args[1]
        /\ path[Len(path)] = args[2]
        /\ \A i, j \in 1 .. Len(path) : path[i] = path[j] => i = j
        /\ \A i \in 1 .. Len(path) - 1 :
               /\ path[i + 1] \in GridNeighbours(path[i])
               /\ path[i + 1] \in Passages(cells, path[i])
               /\ path[i] \in Passages(cells, path[i + 1])
        /\ args[1] = args[2] => path = <<args[1]>>

C7_Witness ==
    /\ solves >= 1
    /\ ~ret.none
    /\ Len(ret.path) > 4
    /\ args[1] # entry

(***************************************************************************)
(* C8: bfs_solver(start, end) returns None exactly when end is not joined  *)
(* to start by open walls; on a maze with all walls closed it returns None *)
(* for start # end; None is a result of the call, which returns normally.  *)
(***************************************************************************)
C8_NoneIffUnreachable ==
    solves >= 1 =>
        /\ ret.none <=> args[2] \notin Reach(cells, args[1])
        /\ (OpenWalls(cells) = {} /\ args[1] # args[2]) => ret.none
        /\ pc = "idle"

\* None on a fresh maze.
C8_Witness ==
    /\ solves >= 1
    /\ ret.none
    /\ visited_count = 1
    /\ OpenWalls(cells) = {}
    /\ args[1] # args[2]

(***************************************************************************)
(* C9: the solver is non-destructive.  A call of bfs_solver leaves the     *)
(* walls, the logo flag and the solution flag of every cell as they were   *)
(* and does not touch the counters; of the visited flags set before the    *)
(* call none survives on a cell the search from start does not reach, and  *)
(* start is visited.                                                       *)
(***************************************************************************)
C9_SolverFrame ==
    [][solves' # solves =>
        /\ \A p \in Cells :
               /\ cells'[p].walls = cells[p].walls
               /\ cells'[p].logo = cells[p].logo
               /\ cells'[p].solution = cells[p].solution
        /\ Visited(cells') \subseteq Reach(cells, args'[1])
        /\ DOMAIN cells' = Cells
        /\ cells'[args'[1]].visited
        /\ UNCHANGED <<visited_count, cells_count>>]_vars

\* A solver call made while a path is highlighted on a generated maze.
C9_Witness ==
    /\ solves >= 2
    /\ Highlighted(cells) # {}
    /\ Visited(cells) # Highlighted(cells)
    /\ visited_count > 1

(***************************************************************************)
(* C10: the braid pass only adds edges.  No step of make_it_imperfect sets *)
(* a wall flag that was clear, and every cell joined to a cell by open     *)
(* walls before a step is joined to it after the step.                     *)
(***************************************************************************)
C10_BraidAddsOnly ==
    [][pc = "braid" =>
        /\ \A p \in Cells : \A s \in Sides :
               ~cells[p].walls[s] => ~cells'[p].walls[s]
        /\ cells' # cells =>
               \A p \in Cells : Reach(cells, p) \subseteq Reach(cells', p)]_vars

\* The pass has opened walls on top of the carving.
C10_Witness ==
    /\ pc = "idle"
    /\ solves = 0
    /\ ~perfect
    /\ Cardinality(OpenWalls(cells)) > Cardinality(Visited(cells)) - 1
    /\ bpos = 0

(***************************************************************************)
(* C11: the braid pass never touches a reserved cell.  In every step of    *)
(* make_it_imperfect that changes a wall flag, the cell being processed is *)
(* not a logo cell and has no logo cell among its grid neighbours, every   *)
(* wall flag that changes belongs to a cell that is not of the logo and    *)
(* faces a cell that is not of the logo, and so no wall between a logo     *)
(* cell and its neighbour changes.                                         *)
(***************************************************************************)
C11_BraidAvoidsLogo ==
    [][(pc = "braid" /\ cells' # cells) =>
        LET p == <<bpos \div width, bpos % width>> IN
        /\ ~cells[p].logo
        /\ \A n \in GridNeighbours(p) : ~cells[n].logo
        /\ \A q \in Cells : \A s \in Sides :
               cells'[q].walls[s] # cells[q].walls[s] =>
                   /\ ~cells[q].logo
                   /\ Facing(q, s) \in Cells
                   /\ ~cells[Facing(q, s)].logo
                   /\ p \in {q, Facing(q, s)}]_vars

\* The pass at work on a grid with a logo: walls opened, more cells to scan.
C11_Witness ==
    /\ pc = "braid"
    /\ bpos > width
    /\ Logo(cells) # {}
    /\ Cardinality(OpenWalls(cells)) > visited_count - 1

(***************************************************************************)
(* C12: the braid pass runs after generation if and only if perfect is     *)
(* False.  A pass starts only when the carving of dfs or prime has         *)
(* finished on a maze that is not perfect; a carving that finishes on a    *)
(* perfect maze returns without a pass; the pass does not carve; and once  *)
(* the generation call has returned no further pass starts, so the pass    *)
(* runs once.                                                              *)
(***************************************************************************)
C12_BraidIffImperfect ==
    [][/\ (pc # "braid" /\ pc' = "braid") =>
              /\ ~perfect
              /\ pc \in {"new", "dfs", "prime"}
              /\ stack' = <<>>
              /\ bpos' = 0
       /\ (pc \in {"new", "dfs", "prime"} /\ pc' = "idle" /\ solves' = solves)
              => perfect
       /\ pc = "braid" =>
              /\ UNCHANGED <<visited_count, stack, choices, rng>>
              /\ Visited(cells') = Visited(cells)
              /\ pc' = "braid" => bpos' = bpos + 1
       /\ pc = "idle" => pc' = "idle"]_vars

\* The application's pass after a carving, scan complete and about to
\* return.
C12_Witness ==
    /\ pc = "braid"
    /\ cls = "Maze"
    /\ bpos = height * width
    /\ visited_count > 1

RegionFits(h, w) == LogoCells(h, w) \subseteq Pos(h, w)

C14_ConstructionThreshold ==
    /\ ~RegionFits(height, width) =>
           /\ pc = "raised"
           /\ visited_count = 1
           /\ OpenWalls(cells) = {}
    /\ (width >= 9 /\ height >= 7) =>
           /\ pc # "raised"
           /\ Logo(cells) = LogoCells(height, width)
           /\ Cardinality(Logo(cells)) = 18

(***************************************************************************)
(* C15: construction fails when width <= 0 or height <= 0, when entry or   *)
(* exit lies outside the grid (negative coordinates included), or when     *)
(* entry equals exit: no maze object is produced in any of these cases.    *)
(***************************************************************************)
C15_InvalidArgsRejected ==
    ~ValidArgs(height, width, entry, exit) => pc = "raised"

(***************************************************************************)
(* C16: an entry on a reserved cell is rejected as an invalid endpoint at   *)
(* construction, before any generation step runs: no maze is built on      *)
(* which generation can be called with its entry on a reserved cell, and   *)
(* no cell is ever carved in a run started from a reserved cell.           *)
(***************************************************************************)
C16_LogoEndpointRejected ==
    (InGrid(height, width, entry) /\ cells[entry].logo) =>
        /\ pc \in {"raised", "accepted"}
        /\ visited_count = 1

(***************************************************************************)
(* C17: the file holds one line per row and one digit per cell, in         *)
(* row-major order; the digit of a cell is the hexadecimal digit, 0-9 and  *)
(* upper-case A-F, of 1 * (Top wall present) + 2 * (Right) + 4 * (Bottom)  *)
(* + 8 * (Left).                                                           *)
(***************************************************************************)
Bit(b) == IF b THEN 1 ELSE 0

UpperHex(v) ==
    CASE v < 10 -> ToString(v)
      [] v = 10 -> "A"
      [] v = 11 -> "B"
      [] v = 12 -> "C"
      [] v = 13 -> "D"
      [] v = 14 -> "E"
      [] v = 15 -> "F"

C17_HexGrid ==
    file.written =>
        /\ Len(file.grid) = height
        /\ \A r \in 1 .. height :
               /\ Len(file.grid[r]) = width
               /\ \A c \in 1 .. width :
                      LET wl == cells[<<r - 1, c - 1>>].walls IN
                      file.grid[r][c] =
                          UpperHex(1 * Bit(wl.T) + 2 * Bit(wl.R)
                                   + 4 * Bit(wl.B) + 8 * Bit(wl.L))

\* The file of a braided maze with a logo, ten different digits or more.
C17_Witness ==
    /\ file.written
    /\ ~perfect
    /\ visited_count > 40
    /\ Cardinality({file.grid[p[1] + 1][p[2] + 1] : p \in Cells}) >= 10

(***************************************************************************)
(* C18: round trip.  Decoding a digit written for a cell with the bitmask  *)
(* T = 1, R = 2, B = 4, L = 8 gives back the four wall flags of the cell,  *)
(* for each of the 16 wall configurations and for every cell of a file     *)
(* written; two different wall configurations never get the same digit.    *)
(***************************************************************************)
HexValue(ch) ==
    CASE ch = "0" -> 0 [] ch = "1" -> 1 [] ch = "2" -> 2 [] ch = "3" -> 3
      [] ch = "4" -> 4 [] ch = "5" -> 5 [] ch = "6" -> 6 [] ch = "7" -> 7
      [] ch = "8" -> 8 [] ch = "9" -> 9 [] ch = "A" -> 10 [] ch = "B" -> 11
      [] ch = "C" -> 12 [] ch = "D" -> 13 [] ch = "E" -> 14 [] ch = "F" -> 15

Decode(ch) ==
    LET v == HexValue(ch) IN
    [T |-> v % 2 = 1, R |-> (v \div 2) % 2 = 1,
     B |-> (v \div 4) % 2 = 1, L |-> (v \div 8) % 2 = 1]

WallConfigs == [Sides -> BOOLEAN]

C18_RoundTrip ==
    /\ \A wl \in WallConfigs : \A sd \in Sides :
           Decode(hex_digit(wl))[sd] = wl[sd]
    /\ \A a, b \in WallConfigs : a # b => hex_digit(a) # hex_digit(b)
    /\ file.written =>
           \A p \in Cells : \A sd \in Sides :
               Decode(file.grid[p[1] + 1][p[2] + 1])[sd] = cells[p].walls[sd]

\* The file of a perfect maze with a logo.
C18_Witness ==
    /\ file.written
    /\ perfect
    /\ Logo(cells) # {}
    /\ visited_count > 40

(***************************************************************************)
(* C19: solution encoding.  For the path bfs_solver(entry, exit) returned, *)
(* the file holds Len(path) - 1 letters, the i-th being N, S, E or W by    *)
(* the row and column difference of path[i] and path[i + 1], so that the   *)
(* letters replayed from entry visit the cells of the path and end at      *)
(* exit; when the solver returned None the file has no direction line.     *)
(***************************************************************************)
Letter(p, q) ==
    CASE q = Up(p) -> "N"
      [] q = Down(p) -> "S"
      [] q = Right(p) -> "E"
      [] q = Left(p) -> "W"

Move(p, l) ==
    CASE l = "N" -> Up(p)
      [] l = "S" -> Down(p)
      [] l = "E" -> Right(p)
      [] l = "W" -> Left(p)

RECURSIVE Replay(_, _)
Replay(p, letters) ==
    IF letters = <<>> THEN <<p>>
    ELSE <<p>> \o Replay(Move(p, Head(letters)), Tail(letters))

C19_Directions ==
    (file.written /\ args = <<entry, exit>>) =>
        /\ file.path.none <=> ret.none
        /\ ~ret.none =>
               /\ Len(file.path.letters) = Len(ret.path) - 1
               /\ \A i \in 1 .. Len(ret.path) - 1 :
                      file.path.letters[i] = Letter(ret.path[i], ret.path[i + 1])
               /\ Replay(entry, file.path.letters) = ret.path
               /\ ret.path[Len(ret.path)] = exit
        /\ file.entry = <<entry[2], entry[1]>>
        /\ file.exit = <<exit[2], exit[1]>>

\* A direction line on which the four letters occur.
C19_Witness ==
    /\ file.written
    /\ args = <<entry, exit>>
    /\ ~file.path.none
    /\ {"N", "S", "E", "W"} \subseteq Range(file.path.letters)

Carvable == Cardinality(GridReach(cells, entry))

C21_GuardBoundIsReachable ==
    (algo = "DFS" /\ pc \in {"braid", "idle"} /\ solves = 0
        /\ ~cells[entry].logo) =>
        /\ visited_count = Carvable
        /\ cells_count = Carvable

(***************************************************************************)
(* C21 amended: the backtracker terminates on every grid: each of its      *)
(* steps lowers a measure that is never negative (the unvisited cells, the *)
(* choices still to try and the depth of the recursion).  When it returns  *)
(* on a maze whose entry is not reserved, visited_count equals the number  *)
(* of non-reserved cells reachable from entry; the bound of the recursion  *)
(* guard is width * height, which is that number on a grid without         *)
(* reserved cells and is larger on a grid with reserved cells.             *)
(***************************************************************************)
RECURSIVE Pending(_)
Pending(st) ==
    IF st = <<>> THEN 0
    ELSE (Len(Head(st).choices) - Head(st).i + 1) + Pending(Tail(st))

DfsMeasure(cs, st) ==
    8 * Cardinality(DOMAIN cs \ Visited(cs)) + 2 * Pending(st) + Len(st)

C21_BacktrackerTerminates ==
    [][/\ pc = "dfs" =>
              /\ DfsMeasure(cells', stack') < DfsMeasure(cells, stack)
              /\ DfsMeasure(cells', stack') >= 0
       /\ (algo = "DFS" /\ pc \in {"new", "dfs"} /\ pc' \in {"braid", "idle"}
              /\ solves' = solves /\ ~cells[entry].logo) =>
              /\ visited_count' = Cardinality(GridReach(cells', entry))
              /\ cells_count = height * width
              /\ cells_count >= visited_count'
              /\ cells_count = visited_count' <=> Logo(cells) = {}]_vars

\* The backtracker has returned on a grid with a logo, the counter short of
\* the bound.
C21_Witness ==
    /\ algo = "DFS"
    /\ pc \in {"braid", "idle"}
    /\ solves = 0
    /\ ~cells[entry].logo
    /\ Logo(cells) # {}
    /\ visited_count > 40
    /\ visited_count < cells_count

(***************************************************************************)
(* C22 as stated: when frontier growth leaves its loop with visited_count  *)
(* still below cells_count (the empty-frontier branch), some non-reserved  *)
(* cell cannot be reached from entry.                                      *)
(***************************************************************************)
LeavesPrime == pc = "prime" /\ pc' # "prime" /\ ~cells[entry].logo

TieBreak == <<"T", "L", "R", "B">>

VisitedSides(cs, n) ==
    {i \in 1 .. 4 : /\ Facing(n, TieBreak[i]) \in DOMAIN cs
                    /\ cs[Facing(n, TieBreak[i])].visited}

FirstVisitedSide(cs, n) ==
    TieBreak[CHOOSE i \in VisitedSides(cs, n) :
                \A j \in VisitedSides(cs, n) : i <= j]

C23_PrimeStep ==
    [][(pc = "prime" /\ pc' = "prime" /\ visited_count' # visited_count) =>
          LET n == cur' IN
          /\ n \in DOMAIN cells
          /\ ~cells[n].visited
          /\ ~cells[n].logo
          /\ VisitedSides(cells, n) # {}
          /\ Visited(cells') = Visited(cells) \cup {n}
          /\ LET s == FirstVisitedSide(cells, n)
                 m == Facing(n, s)
             IN /\ cells[n].walls[s] /\ cells[m].walls[Opposite(s)]
                /\ ~cells'[n].walls[s] /\ ~cells'[m].walls[Opposite(s)]
                /\ \A q \in DOMAIN cells : \A t \in Sides :
                      (cells'[q].walls[t] # cells[q].walls[t]) =>
                          (<<q, t>> = <<n, s>> \/ <<q, t>> = <<m, Opposite(s)>>)]_vars

\* A step has just picked a cell whose upper and left neighbours were both
\* visited, and has opened its Top wall only.
C23_Witness ==
    /\ pc = "prime"
    /\ visited_count > 2
    /\ cells[cur].visited
    /\ {1, 2} \subseteq VisitedSides(cells, cur)
    /\ ~cells[cur].walls.T
    /\ cells[cur].walls.L /\ cells[cur].walls.R /\ cells[cur].walls.B

(***************************************************************************)
(* C24: in the application, two consecutive regenerate actions with the    *)
(* same configuration, whatever the seed (0 included) and whatever keys    *)
(* came in between, end with the same wall flags in every cell: each time  *)
(* the loop waits for a key after a second or later regeneration, the      *)
(* walls equal those the previous regeneration ended with.                 *)
(***************************************************************************)
C24_RegenerateRepeats ==
    (loop = "getch" /\ pc = "idle" /\ ~first.none) =>
        first.walls = [p \in DOMAIN cells |-> cells[p].walls]

\* The same with a seed other than 0, for which the handler does seed.
C24_SeededRepeats ==
    (seed # 0) => C24_RegenerateRepeats

\* A second regeneration with a seed other than 0 has ended, a change of
\* colours between the two.
C24_Witness ==
    /\ loop = "getch"
    /\ pc = "idle"
    /\ ~first.none
    /\ seed # 0
    /\ maze_color # 1
    /\ visited_count > 40

InSingleRun == solves = 0 /\ pc \in {"new", "dfs", "prime"}

C26_CounterConsistency ==
    [][InSingleRun =>
          /\ pc = "new" =>
                /\ visited_count = 1
                /\ Visited(cells) = {<<Index(entry[1], height),
                                       Index(entry[2], width)>>}
                /\ OpenWalls(cells) = {}
          /\ visited_count = Cardinality(Visited(cells))
          /\ solves' = 0 =>
                /\ visited_count' = Cardinality(Visited(cells'))
                /\ Visited(cells') # Visited(cells) =>
                      /\ visited_count' = visited_count + 1
                      /\ Cardinality(OpenWalls(cells'))
                            = Cardinality(OpenWalls(cells)) + 1
                /\ Visited(cells') = Visited(cells) =>
                      OpenWalls(cells') = OpenWalls(cells)]_vars

\* A run under way: the counter has grown since construction and carving
\* goes on.
C26_Witness ==
    /\ InSingleRun
    /\ pc # "new"
    /\ visited_count > 20
    /\ visited_count = Cardinality(Visited(cells))
    /\ Cardinality(OpenWalls(cells)) = visited_count - 1

(***************************************************************************)
(* C27 as stated: on a perfect-mode instance, after any sequence of dfs,   *)
(* prime and bfs_solver calls that starts with a generation call, the      *)
(* open-wall graph is acyclic.                                             *)
(***************************************************************************)
\* The number of connected components of the open-wall graph on `rest`.
RECURSIVE Components(_, _)
Components(cs, rest) ==
    IF rest = {} THEN 0
    ELSE LET p == CHOOSE q \in rest : TRUE
         IN 1 + Components(cs, rest \ Reach(cs, p))

\* A forest: as many open walls as cells less components.
Acyclic(cs) ==
    Cardinality(OpenWalls(cs))
        = Cardinality(DOMAIN cs) - Components(cs, DOMAIN cs)

C27_StaysPerfect ==
    (perfect /\ pc = "idle" /\ visited_count > 1) => Acyclic(cells)

(***************************************************************************)
(* C27 amended: on a perfect-mode instance the open-wall graph is acyclic  *)
(* after a generation call followed by any number of bfs_solver calls and  *)
(* of dfs or prime calls, as long as no dfs or prime call comes after a    *)
(* bfs_solver call; a dfs or prime call made before any bfs_solver call    *)
(* finds every cell visited and opens no wall.                             *)
(***************************************************************************)
C27_PerfectUntilRecarved ==
    [][/\ (perfect' /\ pc' = "idle" /\ visited_count' > 1 /\ first'.none) =>
              Acyclic(cells')
       /\ (calls' > 0 /\ solves' = 0) =>
              OpenWalls(cells') = OpenWalls(cells)]_vars

\* A generator was called again before the solver, then the solver: the
\* maze is still the one the first call carved.
C27_Witness ==
    /\ perfect
    /\ pc = "idle"
    /\ calls > 0
    /\ solves > 0
    /\ first.none
    /\ visited_count > 40
    /\ Acyclic(cells)

(***************************************************************************)
(* C28: the braid pass is idempotent.  A second run of make_it_imperfect   *)
(* right after a first one opens no further wall: at every step of the     *)
(* second pass, and when it has ended, the walls are those the first pass  *)
(* ended with, for every symmetric wall configuration.                     *)
(***************************************************************************)
C28_BraidIdempotent ==
    ~first.none => [p \in DOMAIN cells |-> cells[p].walls] = first.walls

\* The second pass has ended on a configuration in which the first pass
\* had opened the Top and the Left wall of the centre of a 3 x 3 grid.
C28_Witness ==
    /\ ~first.none
    /\ pc = "idle"
    /\ height = 3
    /\ OpenWalls(cells) = {<<<<0, 1>>, <<1, 1>>>>, <<<<1, 0>>, <<1, 1>>>>}

\* The second pass has ended on a braided 7 x 9 maze.
C28_WitnessGenerated ==
    /\ ~first.none
    /\ pc = "idle"
    /\ width = 9
    /\ Cardinality(OpenWalls(cells)) > visited_count - 1

(***************************************************************************)
(* C29: in the menu loop, every time the loop waits for a key,             *)
(* show_solution is True exactly when no cell of the current maze is       *)
(* highlighted, and when it is False the highlighted cells are those of    *)
(* the current solution from entry to exit; a single show/hide key then    *)
(* flips between shown and hidden.                                         *)
(***************************************************************************)
C29_FlagMatchesHighlight ==
    loop = "getch" =>
        /\ show_solution <=> Highlighted(cells) = {}
        /\ ~show_solution =>
              /\ Truthy(ret)
              /\ Highlighted(cells) = Range(ret.path)

(***************************************************************************)
(* C30: in the application, after every menu action other than quit the    *)
(* output file has been rewritten: each time the loop waits for a key      *)
(* after a key was handled, the hex grid of the file decodes to the walls  *)
(* of the current maze and its direction line replays, from entry, the     *)
(* path bfs_solver(entry, exit) returns on the current maze (no line when  *)
(* it returns None).                                                       *)
(***************************************************************************)
C30_FileFresh ==
    (loop = "getch" /\ keys > 0) =>
        /\ file.written
        /\ \A p \in Cells : \A sd \in Sides :
              Decode(file.grid[p[1] + 1][p[2] + 1])[sd] = cells[p].walls[sd]
        /\ LET sol == bfs_solver(cells, height, width, entry, exit).ret IN
           /\ file.path.none <=> sol.none
           /\ ~sol.none => Replay(entry, file.path.letters) = sol.path

\* The loop waits for a key after a second regeneration that gave other
\* walls than the first, a solution in the file.
C30_Witness ==
    /\ loop = "getch"
    /\ pc = "idle"
    /\ ~first.none
    /\ first.walls # [p \in DOMAIN cells |-> cells[p].walls]
    /\ file.written
    /\ ~file.path.none
    /\ visited_count > 40

====
